---- MODULE Spec2Model ----
(***************************************************************************)
(* Model of execute.py: the startup of perform() (identity check, device   *)
(* enumeration, GPU index selection) and its worker loop                   *)
(* (Preparing / register_particle / execute / complete_task) with the      *)
(* `except Exception` boundary around every cycle.                         *)
(*                                                                         *)
(* Command-line strings are sequences of one-character strings, so that    *)
(* int(sys.argv[2]) is modelled by what Python's parser does.  The         *)
(* coordinator, the trainer and the filesystem are the environment: their  *)
(* answers are chosen with \E from the sets below.  Failures of a stage    *)
(* are exceptions derived from Exception (what `except Exception` sees).   *)
(***************************************************************************)
EXTENDS Integers, Sequences, FiniteSets, TLC

\* ---------------------------------------------------------------- bounds
MaxDevices == 3
MaxArgLen == 2

\* ------------------------------------------------------ program constants
AcquireTimeout == 10
SubmitTimeout == 60
SleepSeconds == 10
HTTP_OK == 200

node_url == "https://mainnet.nimble.technology:443"

\* print_in_color colour codes used by perform()
RED == "31m"
GREEN == "32m"
YELLOW == "33m"

Unbound == -1

\* -------------------------------------------------- command-line strings
Digits == {"0", "1", "2", "3"}
Whitespace == {" "}
Chars == Digits \cup Whitespace \cup {"-", "+", "_", "x"}

RECURSIVE StringsUpTo(_)
StringsUpTo(k) ==
    IF k = 0 THEN {<<>>}
    ELSE LET shorter == StringsUpTo(k - 1)
         IN  shorter \cup {Append(s, c) : s \in {t \in shorter : Len(t) = k - 1}, c \in Chars}

IndexStrings == StringsUpTo(MaxArgLen)
Addresses == {"0xABC", "0xDEF"}
Program == "execute.py"

\* sys.argv: program name, then optionally the address, then optionally the index
Argvs ==
    {<<Program>>}
      \cup {<<Program, a>> : a \in Addresses}
      \cup {<<Program, a, s>> : a \in Addresses, s \in IndexStrings}

DigitVal(c) == CASE c = "0" -> 0 [] c = "1" -> 1 [] c = "2" -> 2 [] c = "3" -> 3
                 [] c = "4" -> 4 [] c = "5" -> 5 [] c = "6" -> 6 [] c = "7" -> 7
                 [] c = "8" -> 8 [] c = "9" -> 9

\* str.strip() as int() applies it to its argument
RECURSIVE LStrip(_)
LStrip(s) == IF s # <<>> /\ Head(s) \in Whitespace THEN LStrip(Tail(s)) ELSE s

RECURSIVE RStrip(_)
RStrip(s) ==
    IF s # <<>> /\ s[Len(s)] \in Whitespace THEN RStrip(SubSeq(s, 1, Len(s) - 1)) ELSE s

Strip(s) == RStrip(LStrip(s))

\* digits with single underscores allowed only between two digits
WellFormedDigits(d) ==
    /\ d # <<>>
    /\ \A k \in 1..Len(d) : d[k] \in Digits \cup {"_"}
    /\ d[1] # "_"
    /\ d[Len(d)] # "_"
    /\ \A k \in 1..(Len(d) - 1) : ~(d[k] = "_" /\ d[k + 1] = "_")

RECURSIVE DecimalValue(_, _)
DecimalValue(d, acc) ==
    IF d = <<>> THEN acc
    ELSE IF Head(d) = "_" THEN DecimalValue(Tail(d), acc)
    ELSE DecimalValue(Tail(d), 10 * acc + DigitVal(Head(d)))

\* int(s) for a str s, base 10: the value, or ValueError
PyInt(s) ==
    LET t == Strip(s)
        signed == t # <<>> /\ Head(t) \in {"+", "-"}
        d == IF signed THEN Tail(t) ELSE t
        magnitude == DecimalValue(d, 0)
    IN  IF ~WellFormedDigits(d) THEN [raised |-> TRUE, exc |-> "ValueError", value |-> 0]
        ELSE [raised |-> FALSE, exc |-> "",
              value |-> IF signed /\ Head(t) = "-" THEN 0 - magnitude ELSE magnitude]

\* str(i) for an int i >= 0 (how a caller writes a device index on the command line)
RECURSIVE PyStr(_)
PyStr(i) ==
    LET last == CHOOSE c \in Digits \cup {"4", "5", "6", "7", "8", "9"} : DigitVal(c) = i % 10
    IN  IF i < 10 THEN <<last>> ELSE Append(PyStr(i \div 10), last)

\* ------------------------------------------------------ device selection
Line(color, text, detail) == [color |-> color, text |-> text, detail |-> detail]

\* the GPU index chosen by perform(), and the message it prints about the choice
SelectGpuRejectsLast(args, n) ==
    IF Len(args) > 2
    THEN LET p == PyInt(args[3])
         IN  IF p.raised \/ p.value < 0 \/ p.value >= n - 1
             THEN [gpu_index |-> 0, said |-> <<Line(RED, "Error: Invalid GPU index. Using default (0).", "")>>]
             ELSE [gpu_index |-> p.value, said |-> <<>>]
    ELSE [gpu_index |-> 0, said |-> <<Line(YELLOW, "No GPU index provided. Using default (0).", "")>>]

SelectGpuAcceptsCount(args, n) ==
    IF Len(args) > 2
    THEN LET p == PyInt(args[3])
         IN  IF p.raised \/ p.value < 0 \/ p.value > n
             THEN [gpu_index |-> 0, said |-> <<Line(RED, "Error: Invalid GPU index. Using default (0).", "")>>]
             ELSE [gpu_index |-> p.value, said |-> <<>>]
    ELSE [gpu_index |-> 0, said |-> <<Line(YELLOW, "No GPU index provided. Using default (0).", "")>>]

SelectGpu(args, n) ==
    IF Len(args) > 2
    THEN LET p == PyInt(args[3])
         IN  IF p.raised \/ p.value < 0 \/ p.value >= n
             THEN [gpu_index |-> 0, said |-> <<Line(RED, "Error: Invalid GPU index. Using default (0).", "")>>]
             ELSE [gpu_index |-> p.value, said |-> <<>>]
    ELSE [gpu_index |-> 0, said |-> <<Line(YELLOW, "No GPU index provided. Using default (0).", "")>>]

\* what perform() does before the loop (lines 99-129), as one result
StartupNoDeviceCheck(args, devices) ==
    IF Len(args) < 2
    THEN [pc |-> "exited", addr |-> "", num_devices |-> Unbound, gpu_index |-> Unbound,
          said |-> <<Line(RED, "Error: Address not provided.", "")>>]
    ELSE LET sel == SelectGpu(args, devices)
         IN  [pc |-> "PREPARING", addr |-> args[2], num_devices |-> devices,
              gpu_index |-> sel.gpu_index,
              said |-> <<Line(YELLOW, "Available CUDA devices:", "")>>
                         \o [i \in 1..devices |-> Line(YELLOW, "device", "")]
                         \o sel.said
                         \o <<Line(YELLOW, "started to work on GPU", args[2])>>]

StartupNoAddressCheck(args, devices) ==
    LET a == IF Len(args) < 2 THEN "" ELSE args[2]
    IN  IF devices = 0
        THEN [pc |-> "exited", addr |-> a, num_devices |-> devices, gpu_index |-> Unbound,
              said |-> <<Line(YELLOW, "No CUDA devices available. exiting.", "")>>]
        ELSE LET sel == SelectGpu(args, devices)
             IN  [pc |-> "PREPARING", addr |-> a, num_devices |-> devices,
                  gpu_index |-> sel.gpu_index,
                  said |-> <<Line(YELLOW, "Available CUDA devices:", "")>>
                             \o [i \in 1..devices |-> Line(YELLOW, "device", "")]
                             \o sel.said
                             \o <<Line(YELLOW, "started to work on GPU", a)>>]

StartupResult(args, devices) ==
    IF Len(args) < 2
    THEN [pc |-> "exited", addr |-> "", num_devices |-> Unbound, gpu_index |-> Unbound,
          said |-> <<Line(RED, "Error: Address not provided.", "")>>]
    ELSE IF devices = 0
    THEN [pc |-> "exited", addr |-> args[2], num_devices |-> devices, gpu_index |-> Unbound,
          said |-> <<Line(YELLOW, "No CUDA devices available. exiting.", "")>>]
    ELSE LET sel == SelectGpu(args, devices)
         IN  [pc |-> "PREPARING", addr |-> args[2], num_devices |-> devices,
              gpu_index |-> sel.gpu_index,
              said |-> <<Line(YELLOW, "Available CUDA devices:", "")>>
                         \o [i \in 1..devices |-> Line(YELLOW, "device", "")]
                         \o sel.said
                         \o <<Line(YELLOW, "started to work on GPU", args[2])>>]

\* ------------------------------------------------------------ coordinator
\* task descriptors the coordinator hands out; Task3 lacks keys execute() reads
Task1 == [model_name |-> "m", dataset_name |-> "d", num_labels |-> 2, num_rows |-> 10, seed |-> 1]
Task2 == [model_name |-> "m", dataset_name |-> "d", num_labels |-> 2, num_rows |-> 10, seed |-> 2]
Task3 == [model_name |-> "m"]
Tasks == {Task1, Task2, Task3}
TaskKeys == {"model_name", "dataset_name", "num_labels", "num_rows", "seed"}

\* response bodies: text that is not JSON, a JSON array, JSON objects
NotJson == [json |-> FALSE, type |-> "none", members |-> <<>>]
JsonArray == [json |-> TRUE, type |-> "array", members |-> <<>>]
JsonObject(m) == [json |-> TRUE, type |-> "object", members |-> m]

AcquireBodies ==
    {NotJson, JsonArray, JsonObject([error |-> "busy"])}
      \cup {JsonObject([args |-> t]) : t \in Tasks}
SubmitBodies == {NotJson, JsonObject([status |-> "ok"])}

Statuses == {HTTP_OK, 500}

\* what requests.post meets: an HTTP response, or a transport failure
\* (timeout, connection error) that makes it raise
Responses(bodies) ==
    {[kind |-> "response", status |-> st, body |-> b] : st \in Statuses, b \in bodies}
      \cup {[kind |-> "timeout", status |-> 0, body |-> NotJson]}

Returned(v) == [raised |-> FALSE, exc |-> "", value |-> <<v>>]
Raised(e) == [raised |-> TRUE, exc |-> e, value |-> <<>>]

\* response.json()
Json(body) == IF body.json THEN Returned(body) ELSE Raised("JSONDecodeError")

\* register_particle(addr), given what the coordinator answers
register_particle_IgnoreStatus(a, resp) ==
    IF resp.kind # "response" THEN Raised("RequestException")
    ELSE LET task == Json(resp.body)
         IN  IF task.raised THEN task
             ELSE IF task.value[1].type # "object" THEN Raised("TypeError")
             ELSE IF "args" \notin DOMAIN task.value[1].members THEN Raised("KeyError")
             ELSE Returned(task.value[1].members.args)

register_particle_DefaultTask(a, resp) ==
    IF resp.kind # "response" THEN Raised("RequestException")
    ELSE IF resp.status # HTTP_OK THEN Raised("Failed to init particle: Try later.")
    ELSE LET task == Json(resp.body)
         IN  IF task.raised \/ task.value[1].type # "object"
                \/ "args" \notin DOMAIN task.value[1].members
             THEN Returned(Task1)
             ELSE Returned(task.value[1].members.args)

register_particle(a, resp) ==
    IF resp.kind # "response" THEN Raised("RequestException")
    ELSE IF resp.status # HTTP_OK THEN Raised("Failed to init particle: Try later.")
    ELSE LET task == Json(resp.body)
         IN  IF task.raised THEN task
             ELSE IF task.value[1].type # "object" THEN Raised("TypeError")
             ELSE IF "args" \notin DOMAIN task.value[1].members THEN Raised("KeyError")
             ELSE Returned(task.value[1].members.args)

\* the request register_particle sends
AcquireRequest(a) ==
    [url |-> "/register_particle", timeout |-> AcquireTimeout, json |-> [address |-> a]]

\* ------------------------------------------------------------- executor
\* how a run of the trainer ends when the descriptor is usable
TrainerOutcomes == {"ok", "load_error", "train_error", "save_error"}

\* the two files complete_task uploads, each tagged with the cycle that wrote it
\* ("none": absent, "current": this cycle, "earlier": a previous cycle)
NoFiles == [config |-> "none", training_args |-> "none"]

\* execute(task_args, gpu_index): its result and the files it leaves in my_model/
execute(t, gpu, outcome, files) ==
    IF ~(TaskKeys \subseteq DOMAIN t)
    THEN [result |-> Raised("KeyError"), files |-> files]
    ELSE CASE outcome = "ok" ->
                [result |-> Returned("None"),
                 files |-> [config |-> "current", training_args |-> "current"]]
           [] outcome = "save_error" ->
                [result |-> Raised("OSError"),
                 files |-> [files EXCEPT !.config = "current"]]
           [] OTHER ->
                [result |-> Raised("RuntimeError"), files |-> files]

\* ------------------------------------------------------------ submission
\* whether each open() succeeds when the file exists
OpenOutcomes == {"ok", "fail1", "fail2"}

SubmitRequest(a, files) ==
    [url |-> "/complete_task", timeout |-> SubmitTimeout,
     file1 |-> files.config, file2 |-> files.training_args,
     r |-> [address |-> a]]

\* complete_task(wallet_address): result, the files it opened, the request it sent
complete_task_IgnoringBody(a, files, opening, resp) ==
    IF files.config = "none" \/ opening = "fail1"
    THEN [result |-> Raised("OSError"), opened |-> {}, sent |-> <<>>]
    ELSE IF files.training_args = "none" \/ opening = "fail2"
    THEN [result |-> Raised("OSError"), opened |-> {"file1"}, sent |-> <<>>]
    ELSE LET req == SubmitRequest(a, files)
             both == {"file1", "file2"}
         IN  IF resp.kind # "response"
             THEN [result |-> Raised("RequestException"), opened |-> both, sent |-> <<req>>]
             ELSE IF resp.status # HTTP_OK
             THEN [result |-> Raised("Failed to complete task: Try later."),
                   opened |-> both, sent |-> <<req>>]
             ELSE [result |-> Returned(resp.body), opened |-> both, sent |-> <<req>>]

complete_task(a, files, opening, resp) ==
    IF files.config = "none" \/ opening = "fail1"
    THEN [result |-> Raised("OSError"), opened |-> {}, sent |-> <<>>]
    ELSE IF files.training_args = "none" \/ opening = "fail2"
    THEN [result |-> Raised("OSError"), opened |-> {"file1"}, sent |-> <<>>]
    ELSE LET req == SubmitRequest(a, files)
             both == {"file1", "file2"}
         IN  IF resp.kind # "response"
             THEN [result |-> Raised("RequestException"), opened |-> both, sent |-> <<req>>]
             ELSE IF resp.status # HTTP_OK
             THEN [result |-> Raised("Failed to complete task: Try later."),
                   opened |-> both, sent |-> <<req>>]
             ELSE [result |-> Json(resp.body), opened |-> both, sent |-> <<req>>]

\* ------------------------------------------------------------------ state
VARIABLES
    argv,          \* sys.argv
    cuda_devices,  \* what torch.cuda.device_count() answers
    pc,            \* "start", "exited", or the loop state about to run
    addr,          \* perform()'s local addr
    num_devices,   \* perform()'s local num_devices (Unbound until assigned)
    gpu_index,     \* perform()'s local gpu_index (Unbound until assigned)
    task_args,     \* perform()'s local task_args: <<>> until assigned, then <<descriptor>>
    files,         \* my_model/config.json and my_model/training_args.bin on disk
    startup_out,   \* lines printed before the loop
    out,           \* lines printed by the cycle in progress (or just ended)
    calls,         \* sleep and stage invocations of that cycle, in order
    open_handles   \* file objects opened by complete_task and not closed yet

vars == <<argv, cuda_devices, pc, addr, num_devices, gpu_index, task_args, files,
          startup_out, out, calls, open_handles>>

LoopStates == {"PREPARING", "ACQUIRING", "EXECUTING", "SUBMITTING"}
Stages == {"register_particle", "execute", "complete_task"}

Call(fn, args, io, res) == [fn |-> fn, args |-> args, io |-> io, result |-> res]

Init ==
    /\ argv \in Argvs
    /\ cuda_devices \in 0..MaxDevices
    /\ pc = "start"
    /\ addr = ""
    /\ num_devices = Unbound
    /\ gpu_index = Unbound
    /\ task_args = <<>>
    /\ files \in {NoFiles, [config |-> "earlier", training_args |-> "earlier"]}
    /\ startup_out = <<>>
    /\ out = <<>>
    /\ calls = <<>>
    /\ open_handles = {}

\* perform(), lines 99-129
Startup ==
    /\ pc = "start"
    /\ LET r == StartupResult(argv, cuda_devices)
       IN  /\ pc' = r.pc
           /\ addr' = r.addr
           /\ num_devices' = r.num_devices
           /\ gpu_index' = r.gpu_index
           /\ startup_out' = r.said
    /\ UNCHANGED <<argv, cuda_devices, task_args, files, out, calls, open_handles>>

\* a file written by the cycle that just ended belongs to an earlier cycle from now on
Aged(f) ==
    [k \in DOMAIN f |-> IF f[k] = "current" THEN "earlier" ELSE f[k]]

\* the except clause of the loop (lines 141-142): report, then the next iteration
CatchAndRetryStage(c) ==
    /\ out' = Append(out, Line(RED, "Error", c.result.exc))
    /\ pc' = pc

CatchAndSubmit(c) ==
    /\ out' = Append(out, Line(RED, "Error", c.result.exc))
    /\ pc' = "SUBMITTING"

CatchAndExit(c) ==
    /\ out' = Append(out, Line(RED, "Error", c.result.exc))
    /\ pc' = "exited"

CatchAndResubmit(c) ==
    /\ out' = Append(out, Line(RED, "Error", c.result.exc))
    /\ pc' = IF c.fn = "complete_task" THEN "SUBMITTING" ELSE "PREPARING"

Catch(c) ==
    /\ out' = Append(out, Line(RED, "Error", c.result.exc))
    /\ pc' = "PREPARING"

\* lines 133-134: print "Preparing", sleep; a new cycle starts here
PrepareWithBackoff ==
    /\ pc = "PREPARING"
    /\ out' = <<Line(YELLOW, "Preparing", "")>>
    /\ calls' = <<Call("sleep",
                       <<IF out # <<>> /\ out[Len(out)].text = "Error"
                         THEN 2 * SleepSeconds ELSE SleepSeconds>>,
                       [kind |-> "clock"], Returned("None"))>>
    /\ files' = Aged(files)
    /\ pc' = "ACQUIRING"
    /\ UNCHANGED <<argv, cuda_devices, addr, num_devices, gpu_index, task_args, startup_out,
                   open_handles>>

Prepare ==
    /\ pc = "PREPARING"
    /\ out' = <<Line(YELLOW, "Preparing", "")>>
    /\ calls' = <<Call("sleep", <<SleepSeconds>>, [kind |-> "clock"], Returned("None"))>>
    /\ files' = Aged(files)
    /\ pc' = "ACQUIRING"
    /\ UNCHANGED <<argv, cuda_devices, addr, num_devices, gpu_index, task_args, startup_out,
                   open_handles>>

\* lines 135-136
AcquireReusingStaleTask ==
    /\ pc = "ACQUIRING"
    /\ \E resp \in Responses(AcquireBodies) :
         LET r == register_particle(addr, resp)
             c == Call("register_particle", <<addr>>, resp, r)
         IN  /\ calls' = Append(calls, c)
             /\ IF r.raised /\ task_args = <<>>
                THEN Catch(c) /\ UNCHANGED task_args
                ELSE /\ task_args' = IF r.raised THEN task_args ELSE r.value
                     /\ out' = Append(out, Line(YELLOW, "received the task.", addr))
                     /\ pc' = "EXECUTING"
    /\ UNCHANGED <<argv, cuda_devices, addr, num_devices, gpu_index, files, startup_out,
                   open_handles>>

AcquireKeepingOldTasks ==
    /\ pc = "ACQUIRING"
    /\ \E resp \in Responses(AcquireBodies) :
         LET r == register_particle(addr, resp)
             c == Call("register_particle", <<addr>>, resp, r)
         IN  /\ calls' = Append(calls, c)
             /\ IF r.raised
                THEN Catch(c) /\ UNCHANGED task_args
                ELSE /\ task_args' = r.value \o task_args
                     /\ out' = Append(out, Line(YELLOW, "received the task.", addr))
                     /\ pc' = "EXECUTING"
    /\ UNCHANGED <<argv, cuda_devices, addr, num_devices, gpu_index, files, startup_out,
                   open_handles>>

Acquire ==
    /\ pc = "ACQUIRING"
    /\ \E resp \in Responses(AcquireBodies) :
         LET r == register_particle(addr, resp)
             c == Call("register_particle", <<addr>>, resp, r)
         IN  /\ calls' = Append(calls, c)
             /\ IF r.raised
                THEN Catch(c) /\ UNCHANGED task_args
                ELSE /\ task_args' = r.value
                     /\ out' = Append(out, Line(YELLOW, "received the task.", addr))
                     /\ pc' = "EXECUTING"
    /\ UNCHANGED <<argv, cuda_devices, addr, num_devices, gpu_index, files, startup_out,
                   open_handles>>

\* lines 137-138
ExecuteOnDefaultGpu ==
    /\ pc = "EXECUTING"
    /\ \E outcome \in TrainerOutcomes :
         LET e == execute(task_args[1], 0, outcome, files)
             c == Call("execute", <<task_args[1], 0>>, [kind |-> outcome], e.result)
         IN  /\ calls' = Append(calls, c)
             /\ files' = e.files
             /\ IF e.result.raised
                THEN Catch(c)
                ELSE /\ out' = Append(out, Line(GREEN, "executed the task.", addr))
                     /\ pc' = "SUBMITTING"
    /\ UNCHANGED <<argv, cuda_devices, addr, num_devices, gpu_index, task_args, startup_out,
                   open_handles>>

ExecuteIgnoringFailure ==
    /\ pc = "EXECUTING"
    /\ \E outcome \in TrainerOutcomes :
         LET e == execute(task_args[1], gpu_index, outcome, files)
             c == Call("execute", <<task_args[1], gpu_index>>, [kind |-> outcome], e.result)
         IN  /\ calls' = Append(calls, c)
             /\ files' = e.files
             /\ out' = Append(out, Line(GREEN, "executed the task.", addr))
             /\ pc' = "SUBMITTING"
    /\ UNCHANGED <<argv, cuda_devices, addr, num_devices, gpu_index, task_args, startup_out,
                   open_handles>>

Execute ==
    /\ pc = "EXECUTING"
    /\ \E outcome \in TrainerOutcomes :
         LET e == execute(task_args[1], gpu_index, outcome, files)
             c == Call("execute", <<task_args[1], gpu_index>>, [kind |-> outcome], e.result)
         IN  /\ calls' = Append(calls, c)
             /\ files' = e.files
             /\ IF e.result.raised
                THEN Catch(c)
                ELSE /\ out' = Append(out, Line(GREEN, "executed the task.", addr))
                     /\ pc' = "SUBMITTING"
    /\ UNCHANGED <<argv, cuda_devices, addr, num_devices, gpu_index, task_args, startup_out,
                   open_handles>>

\* complete_task never closes what it opens (lines 87-88 have no close() and no
\* `with`): when it exits, its file objects are closed only if the runtime
\* reclaims them at once; otherwise they stay open until a later collection
StillOpen(opened, reclaimed) == IF reclaimed THEN {} ELSE opened

\* lines 139-140
SubmitWithoutCompletionLine ==
    /\ pc = "SUBMITTING"
    /\ \E opening \in OpenOutcomes, resp \in Responses(SubmitBodies), reclaimed \in BOOLEAN :
         LET s == complete_task(addr, files, opening, resp)
             c == Call("complete_task", <<addr>>,
                       [kind |-> resp.kind, status |-> resp.status, body |-> resp.body,
                        opening |-> opening, opened |-> s.opened, sent |-> s.sent],
                       s.result)
         IN  /\ calls' = Append(calls, c)
             /\ open_handles' = open_handles \cup StillOpen(s.opened, reclaimed)
             /\ IF s.result.raised
                THEN Catch(c)
                ELSE /\ out' = out
                     /\ pc' = "PREPARING"
    /\ UNCHANGED <<argv, cuda_devices, addr, num_devices, gpu_index, task_args, files,
                   startup_out>>

Submit ==
    /\ pc = "SUBMITTING"
    /\ \E opening \in OpenOutcomes, resp \in Responses(SubmitBodies), reclaimed \in BOOLEAN :
         LET s == complete_task(addr, files, opening, resp)
             c == Call("complete_task", <<addr>>,
                       [kind |-> resp.kind, status |-> resp.status, body |-> resp.body,
                        opening |-> opening, opened |-> s.opened, sent |-> s.sent],
                       s.result)
         IN  /\ calls' = Append(calls, c)
             /\ open_handles' = open_handles \cup StillOpen(s.opened, reclaimed)
             /\ IF s.result.raised
                THEN Catch(c)
                ELSE /\ out' = Append(out, Line(GREEN, "completed the task.", addr))
                     /\ pc' = "PREPARING"
    /\ UNCHANGED <<argv, cuda_devices, addr, num_devices, gpu_index, task_args, files,
                   startup_out>>

\* the runtime's collector finalizes file objects that are no longer referenced
Collect ==
    /\ open_handles # {}
    /\ open_handles' = {}
    /\ UNCHANGED <<argv, cuda_devices, pc, addr, num_devices, gpu_index, task_args, files,
                   startup_out, out, calls>>

Next == Startup \/ Prepare \/ Acquire \/ Execute \/ Submit \/ Collect

Spec == Init /\ [][Next]_vars

\* the loop is a sequential `while True`: whenever a step is possible, one is taken.
\* The index argument plays no part after startup, so the fair behaviours are
\* explored for index arguments of at most one character.
LiveInit == Init /\ (Len(argv) > 2 => Len(argv[3]) <= 1)
Live == LiveInit /\ [][Next]_vars /\ WF_vars(Next)

\* ------------------------------------------------------------- properties
InLoop == pc \in LoopStates

Count(fn) == Cardinality({k \in DOMAIN calls : calls[k].fn = fn})
Failed(fn) == \E k \in DOMAIN calls : calls[k].fn = fn /\ calls[k].result.raised
Succeeded(fn) == \E k \in DOMAIN calls : calls[k].fn = fn /\ ~calls[k].result.raised
ErrorReports == {k \in DOMAIN out : out[k].text = "Error" /\ out[k].color = RED}
Said(lines, text) == \E k \in DOMAIN lines : lines[k].text = text

\* C1: when a stage (register_particle, execute, complete_task) fails in a cycle,
\* the cycle has exactly one error report, the loop is back at PREPARING (not
\* exited, not at any later stage), and the failed stage was invoked once only
\* and is the last call of the cycle.
C1_FailureIsolated ==
    \A st \in Stages :
        Failed(st) =>
            /\ Cardinality(ErrorReports) = 1
            /\ pc = "PREPARING"
            /\ Count(st) = 1
            /\ calls[Len(calls)].fn = st

C1_Witness ==
    /\ Failed("complete_task")
    /\ pc = "PREPARING"
    /\ Cardinality(ErrorReports) = 1

\* C2: in a cycle where register_particle fails, neither execute nor
\* complete_task is invoked, the failure is reported and the loop is at PREPARING.
C2_AcquireFailureSkipsRest ==
    Failed("register_particle") =>
        /\ Count("execute") = 0
        /\ Count("complete_task") = 0
        /\ out[Len(out)].text = "Error"
        /\ pc = "PREPARING"

C2_Witness ==
    /\ Len(calls) = 2
    /\ calls[2].fn = "register_particle"
    /\ calls[2].io.status = 500
    /\ calls[2].result.raised
    /\ pc = "PREPARING"

\* C3: complete_task is invoked only after execute returned successfully earlier
\* in the same cycle; the files of a request it sends were both written by this
\* cycle's execute; a cycle whose execute failed has no complete_task call.
C3_SubmitOnlyAfterExecute ==
    /\ \A k \in DOMAIN calls :
          calls[k].fn = "complete_task" =>
              /\ \E j \in 1..(k - 1) : calls[j].fn = "execute" /\ ~calls[j].result.raised
              /\ calls[k].io.sent # <<>> =>
                    /\ calls[k].io.sent[1].file1 = "current"
                    /\ calls[k].io.sent[1].file2 = "current"
    /\ Failed("execute") => Count("complete_task") = 0

C3_Witness ==
    /\ Failed("execute")
    /\ files = [config |-> "current", training_args |-> "earlier"]
    /\ pc = "PREPARING"

\* C4: a cycle in which register_particle, execute and complete_task all
\* succeeded made exactly the calls sleep, register_particle, execute,
\* complete_task in that order, printed exactly Preparing, received, executed,
\* completed in that order with no error report, and the loop is at PREPARING.
C4_SuccessfulCycle ==
    (\A st \in Stages : Succeeded(st)) =>
        /\ [k \in DOMAIN calls |-> calls[k].fn]
              = <<"sleep", "register_particle", "execute", "complete_task">>
        /\ [k \in DOMAIN out |-> out[k].text]
              = <<"Preparing", "received the task.", "executed the task.",
                  "completed the task.">>
        /\ ErrorReports = {}
        /\ pc = "PREPARING"

C4_Witness ==
    /\ \A st \in Stages : Succeeded(st)
    /\ Said(out, "completed the task.")
    /\ pc = "PREPARING"

\* C5: once the loop is entered, PREPARING is reached again and again and a new
\* cycle is started again and again, whatever the stages answer.
C5_LoopRunsForever ==
    [](InLoop => ([]<>(pc = "PREPARING") /\ []<>(pc = "ACQUIRING")))

C5_Witness ==
    /\ Failed("execute")
    /\ calls[Len(calls)].io.kind = "train_error"
    /\ pc = "PREPARING"

\* C6: with no device available, perform() returns before the loop whatever
\* the index argument is: no cycle output and no call is ever made.
C6_NoDeviceNoLoop ==
    (cuda_devices = 0 /\ pc # "start") =>
        /\ pc = "exited"
        /\ calls = <<>>
        /\ out = <<>>

C6_Witness ==
    /\ cuda_devices = 0
    /\ pc = "exited"
    /\ Len(argv) > 2
    /\ argv[3] = <<"0">>
    /\ Said(startup_out, "No CUDA devices available. exiting.")

\* C7: without an address argument perform() prints the error and returns: the
\* device count is not read, no GPU index is chosen, no call is ever made.
C7_NoAddressNoLoop ==
    (Len(argv) < 2 /\ pc # "start") =>
        /\ pc = "exited"
        /\ [k \in DOMAIN startup_out |-> startup_out[k].text]
              = <<"Error: Address not provided.">>
        /\ num_devices = Unbound
        /\ gpu_index = Unbound
        /\ calls = <<>>
        /\ out = <<>>

C7_Witness ==
    /\ Len(argv) < 2
    /\ cuda_devices > 0
    /\ pc = "exited"

\* C8: with n > 0 devices and the index argument written as str(i), 0 <= i < n,
\* the selected GPU index is i and every execute call receives i.
C8_ValidIndexKept ==
    \A i \in 0..(cuda_devices - 1) :
        (InLoop /\ Len(argv) > 2 /\ argv[3] = PyStr(i)) =>
            /\ gpu_index = i
            /\ \A k \in DOMAIN calls : calls[k].fn = "execute" => calls[k].args[2] = i

C8_Witness ==
    /\ cuda_devices = 3
    /\ Len(argv) > 2
    /\ argv[3] = <<"2">>
    /\ \E k \in DOMAIN calls : calls[k].fn = "execute" /\ calls[k].args[2] = 2

\* C9: with n > 0 devices and an index argument that int() rejects or whose
\* value is outside [0, n), startup does not stop: the loop is entered with GPU
\* index 0 and the invalid-index warning was printed.
InvalidIndex(s, n) == PyInt(s).raised \/ PyInt(s).value < 0 \/ PyInt(s).value >= n

C9_InvalidIndexFallsBack ==
    (cuda_devices > 0 /\ pc # "start" /\ Len(argv) > 2 /\ InvalidIndex(argv[3], cuda_devices)) =>
        /\ InLoop
        /\ gpu_index = 0
        /\ Said(startup_out, "Error: Invalid GPU index. Using default (0).")

C9_Witness ==
    /\ cuda_devices = 2
    /\ Len(argv) > 2
    /\ argv[3] = <<"2">>
    /\ InLoop
    /\ gpu_index = 0

\* C10: a register_particle call answered with status 200 and a JSON object
\* holding `args` returns exactly that `args` value, which becomes task_args; a
\* call answered with any other status raises "Failed to init particle" and
\* returns nothing, whatever the body holds.
HasArgs(body) == body.json /\ body.type = "object" /\ "args" \in DOMAIN body.members

C10_AcquireResult ==
    \A k \in DOMAIN calls :
        (calls[k].fn = "register_particle" /\ calls[k].io.kind = "response") =>
            /\ (calls[k].io.status = HTTP_OK /\ HasArgs(calls[k].io.body)) =>
                  /\ ~calls[k].result.raised
                  /\ calls[k].result.value = <<calls[k].io.body.members.args>>
                  /\ task_args = <<calls[k].io.body.members.args>>
            /\ calls[k].io.status # HTTP_OK =>
                  /\ calls[k].result.raised
                  /\ calls[k].result.exc = "Failed to init particle: Try later."
                  /\ calls[k].result.value = <<>>

C10_Witness ==
    /\ task_args = <<Task2>>
    /\ Len(calls) = 2
    /\ calls[2].fn = "register_particle"
    /\ calls[2].io.status = 500
    /\ HasArgs(calls[2].io.body)
    /\ calls[2].result.raised

\* C11: every complete_task call opens no file other than the two fixed ones
\* and, when it sends a request, sends one JSON part holding the address; and
\* every handle it opened is closed when it exits, so that no handle is open
\* while the loop is at PREPARING.
ArtifactHandles == {"file1", "file2"}

C11_HandlesClosedOnExit ==
    /\ \A k \in DOMAIN calls :
          calls[k].fn = "complete_task" =>
              /\ calls[k].io.opened \subseteq ArtifactHandles
              /\ calls[k].io.sent # <<>> =>
                    /\ calls[k].io.opened = ArtifactHandles
                    /\ calls[k].io.sent[1].r = [address |-> addr]
    /\ pc = "PREPARING" => open_handles = {}

\* the exception the code raises for a non-success status of each operation
StatusFailure(fn) ==
    IF fn = "register_particle" THEN "Failed to init particle: Try later."
    ELSE "Failed to complete task: Try later."

RequestSent(c) ==
    \/ c.fn = "register_particle"
    \/ c.fn = "complete_task" /\ c.io.sent # <<>>

\* C12: a register_particle or complete_task call whose request meets a
\* transport failure raises the same failure as one answered with a
\* non-success status, and the loop reports it and is back at PREPARING.
C12_TransportFailureSameKind ==
    \A k \in DOMAIN calls :
        (calls[k].fn \in {"register_particle", "complete_task"}
           /\ RequestSent(calls[k]) /\ calls[k].io.kind = "timeout") =>
            /\ calls[k].result.raised
            /\ calls[k].result.exc = StatusFailure(calls[k].fn)
            /\ out[Len(out)] = Line(RED, "Error", StatusFailure(calls[k].fn))
            /\ pc = "PREPARING"

\* C13: in every cycle the acquire request comes directly after exactly one
\* sleep of SleepSeconds, whether or not earlier cycles failed: a cycle's first
\* call is that sleep, it is the only sleep, and register_particle is the
\* second call.
C13_OneFixedWaitBeforeAcquire ==
    /\ calls # <<>> =>
          /\ calls[1].fn = "sleep"
          /\ calls[1].args = <<SleepSeconds>>
          /\ Count("sleep") = 1
    /\ \A k \in DOMAIN calls : calls[k].fn = "register_particle" => k = 2
    /\ pc \in {"EXECUTING", "SUBMITTING"} => Count("register_particle") = 1

\* a failed acquire of a cycle that follows a cycle whose execute failed while saving
C13_Witness ==
    /\ files = [config |-> "earlier", training_args |-> "none"]
    /\ Failed("register_particle")
    /\ calls[1].args = <<SleepSeconds>>
    /\ pc = "PREPARING"

\* C14: a cycle makes at most one register_particle, one execute and one
\* complete_task call; a failed complete_task is the last call of its cycle and
\* the loop is at PREPARING, so the next coordinator request is the
\* register_particle of the next cycle; execute only follows a successful
\* register_particle of the same cycle.
C14_NoResubmission ==
    /\ \A st \in Stages : Count(st) <= 1
    /\ Len(calls) >= 2 => calls[2].fn = "register_particle"
    /\ \A k \in DOMAIN calls :
          calls[k].fn = "execute" =>
              calls[k - 1].fn = "register_particle" /\ ~calls[k - 1].result.raised
    /\ Failed("complete_task") =>
          /\ calls[Len(calls)].fn = "complete_task"
          /\ pc = "PREPARING"

C14_Witness ==
    /\ Failed("complete_task")
    /\ calls[Len(calls)].io.sent # <<>>
    /\ calls[Len(calls)].io.status = 500
    /\ pc = "PREPARING"

\* C15: a register_particle call answered with status 200 and a body that is
\* not JSON, not an object, or has no `args` raises and returns no descriptor;
\* execute is not invoked in that cycle, the cycle has one error report and the
\* loop is at PREPARING.
C15_MalformedBodyFails ==
    \A k \in DOMAIN calls :
        (calls[k].fn = "register_particle" /\ calls[k].io.kind = "response"
           /\ calls[k].io.status = HTTP_OK /\ ~HasArgs(calls[k].io.body)) =>
            /\ calls[k].result.raised
            /\ calls[k].result.value = <<>>
            /\ Count("execute") = 0
            /\ Cardinality(ErrorReports) = 1
            /\ out[Len(out)].detail = calls[k].result.exc
            /\ pc = "PREPARING"

C15_Witness ==
    /\ Len(calls) = 2
    /\ calls[2].fn = "register_particle"
    /\ calls[2].io.status = HTTP_OK
    /\ calls[2].io.body = JsonObject([error |-> "busy"])
    /\ calls[2].result.exc = "KeyError"
    /\ pc = "PREPARING"

\* C16: while the loop runs, the address is sys.argv[1] and the GPU index lies
\* in [0, device count); every execute call received that GPU index, every
\* register_particle and complete_task call (and the request complete_task
\* sent) carries that address; and no step of the loop changes the address,
\* the device count or the GPU index.
C16_ResolvedOnce ==
    /\ [](InLoop =>
            /\ addr = argv[2]
            /\ num_devices = cuda_devices
            /\ 0 <= gpu_index /\ gpu_index < num_devices
            /\ \A k \in DOMAIN calls :
                  /\ calls[k].fn = "execute" => calls[k].args[2] = gpu_index
                  /\ calls[k].fn \in {"register_particle", "complete_task"} =>
                        calls[k].args = <<addr>>
                  /\ (calls[k].fn = "complete_task" /\ calls[k].io.sent # <<>>) =>
                        calls[k].io.sent[1].r.address = addr)
    /\ [][InLoop => (InLoop' /\ addr' = addr /\ num_devices' = num_devices
                       /\ gpu_index' = gpu_index)]_vars

C16_Witness ==
    /\ gpu_index = 1
    /\ addr = "0xDEF"
    /\ Succeeded("execute")
    /\ Succeeded("complete_task")
    /\ files = [config |-> "current", training_args |-> "current"]

Sequential ==
    /\ \A k \in 1..(Len(calls) - 1) : ~calls[k].result.raised
    /\ \A st \in Stages : Count(st) <= 1

\* C18 as stated: while the loop runs there is exactly one task descriptor, at
\* most one artifact is submitted, and the calls of a cycle do not overlap.
C18_ExactlyOneDescriptor ==
    InLoop =>
        /\ Len(task_args) = 1
        /\ Count("complete_task") <= 1
        /\ Sequential

\* C18 amended: while the loop runs there is at most one task descriptor (none
\* before the first successful register_particle), at most one artifact is
\* submitted per cycle, and the calls of a cycle do not overlap.
C18_AtMostOneDescriptor ==
    InLoop =>
        /\ Len(task_args) <= 1
        /\ Count("complete_task") <= 1
        /\ Sequential

C18_Witness ==
    /\ InLoop
    /\ task_args = <<>>
    /\ Failed("register_particle")
    /\ calls[Len(calls)].result.exc = "JSONDecodeError"

\* C19: a cycle that has ended (the loop is back at PREPARING after some call)
\* printed either the completion line and no error report, or exactly one
\* error report and no completion line; the completion line is printed only
\* when complete_task was answered with status 200 and returned; a
\* complete_task answered with status 200 and a body that is not JSON raises,
\* and its cycle ends with the error report and no completion line.
Completed == Said(out, "completed the task.")

C19_OneOutcomePerCycle ==
    /\ (pc = "PREPARING" /\ calls # <<>>) =>
          \/ Completed /\ ErrorReports = {}
          \/ ~Completed /\ Cardinality(ErrorReports) = 1
    /\ Completed =>
          /\ calls[Len(calls)].fn = "complete_task"
          /\ calls[Len(calls)].io.kind = "response"
          /\ calls[Len(calls)].io.status = HTTP_OK
          /\ ~calls[Len(calls)].result.raised
    /\ \A k \in DOMAIN calls :
          (calls[k].fn = "complete_task" /\ calls[k].io.sent # <<>>
             /\ calls[k].io.kind = "response" /\ calls[k].io.status = HTTP_OK
             /\ ~calls[k].io.body.json) =>
              /\ calls[k].result.raised
              /\ ~Completed
              /\ Cardinality(ErrorReports) = 1

C19_Witness ==
    /\ Len(calls) = 4
    /\ calls[4].fn = "complete_task"
    /\ calls[4].io.sent # <<>>
    /\ calls[4].io.status = HTTP_OK
    /\ calls[4].result.exc = "JSONDecodeError"
    /\ ~Completed
    /\ pc = "PREPARING"

====
